---- MODULE Spec2Model ----
(***************************************************************************)
(* A model of the music rollercoaster visualisation: the zone state        *)
(* machine (main.js updateUIIndicators, audio.js updatePositionFromTime)   *)
(* and the session life cycle (main.js init, finishLoading,                *)
(* startIntroAnimation, cleanupResources; camera.js toggleViewMode).       *)
(*                                                                         *)
(* Source files: main.js is src/unnamed/part_002, audio.js is              *)
(* src/unnamed/part_000, camera.js is src/unnamed/part_004,                *)
(* rollercoaster.js is src/unnamed/part_003, utils.js is src/web/utils.js, *)
(* config.js is the tail of src/web/effects.js (lines 350-501).            *)
(*                                                                         *)
(* JavaScript arrays are 0-based: At(s, i) reads index i of a sequence.    *)
(* Times are whole seconds, energies are hundredths (0.5 is 50).           *)
(***************************************************************************)
EXTENDS Integers, Sequences, FiniteSets, TLC

\* ------------------------------------------------------------------ bounds
\* Samples per loaded series.
DataLen == 2
\* Rides followed by the zone specification.
MaxRides == 2
\* Sessions (calls of init) followed by the life-cycle specification.
MaxSessions == 3
\* zoneChange events followed per session.
SeriesLen == 3
CameraCalls == 2
CameraLen == 3
PathLen == 16
\* rollercoaster.js createRollercoaster: every fifth sample becomes a control
\* point, a curve needs four, the fallback spiral has 36
SampleStride == 5
MinCurvePoints == 4
FallbackPoints == 36
\* main.js line 387 / rollercoaster.js createLightOrbs: the number of orbs
OrbCount == 15
\* config.js defaultHeightAboveTrack, and the floor of camera.js line 162
defaultHeightAboveTrack == 4
MinHeightAboveTrack == 2
MaxEvents == 2

\* --------------------------------------------------------- program constants
\* config.js: zoneCount = Object.keys(zonePalettes).length
zoneCount == 5
\* audio.js skipForward / skipBackward: 10 seconds
SkipSeconds == 10
\* main.js loadDataWithProgress: the energy, structure and zone files
DataFiles == 3

VARIABLES
    \* main.js module state
    sess,               \* number of init() calls so far
    live,               \* the session on screen; 0 while the song menu shows
    isAnimating,
    energyData,         \* main.js module variable
    zoneData,           \* main.js module variable
    scene,              \* 0 = null, else the session whose setupScene made it;
                        \* renderer, composer and clock are made and cleared with it
    isIntroAnimationActive,
    \* one init() call per session: its position and its two loads
    initPc,             \* "none", "loading" (at the await), "running", "crashed"
    audioLoad,          \* "none", "pending", "settled" (resolved or rejected)
    dataLoad,           \* files loaded so far, 0..DataFiles
    fetchFailed,        \* sessions whose current fetch failed
    \* callbacks waiting in the browser, by the session that scheduled them
    timers,             \* finishLoading: "none", "t1" (outer), "t2" (inner timeout)
    intro,              \* startIntroAnimation closure: "none", "intro" (animateIntro
                        \* frame waiting), "settle" (updateTransition frame waiting),
                        \* "done" (introAnimationComplete), "dead" (frame threw)
    animPending,        \* sessions during which a waiting animate frame was requested
    \* globals
    window_energyData,
    window_zoneData,
    \* DOM
    backButtonShown,    \* #back-to-menu display is flex
    keyDownRegistered,  \* window has the handleKeyDown listener
    toggleViewClicks,   \* click listeners on #toggle-view
    zoneChangeListeners, \* listeners createEnvironmentElements added to document
    camKeyListeners,    \* anonymous keydown listeners added by setupCamera
    \* audio.js module state
    audioElement,       \* 0 = null, else the session that created it
    audio_currentTime,
    \* rollercoaster.js module state
    rollercoasterPath,  \* 0 = undefined, else the session whose data built the curve
    \* camera.js module state
    fpEnabled,          \* firstPersonControls.enabled
    orbitEnabled,       \* orbitControls.enabled
    \* config.js state
    state_currentIndex,
    state_currentZone,
    state_firstPersonMode,
    \* history (not program state)
    sessEvents,         \* zoneChange events dispatched since the session began
    fromDefault,        \* the session began with state.currentZone = 'low'
    tuWrote,            \* updatePositionFromTime wrote state.currentZone this session
    lastCand,           \* candidate of the latest frame ('low' before the first)
    candChanges,        \* changes of the frame candidate, while ~tuWrote
    lastRun,            \* what the latest zone computation read and did
    lastInput,          \* the latest view-toggle input of the session on screen
    staleRan,           \* a callback of an ended session ran its body
    introRuns,          \* startIntroAnimation calls since the session on screen began
    introEnded,         \* an intro transition ended since the session on screen began
    lastFault           \* the latest exception of a frame of the session on screen:
                        \* "none", "frame" (in an animate body), "introStayed" /
                        \* "introLeft" (caught in an intro frame, intro kept / left)
VARIABLES
    \* one call of a function of utils.js or camera.js on its own
    call,               \* the arguments
    ret                 \* what the call returned or left behind; NoRet before it
VARIABLES
    \* playback: config.js state.isPlaying and the audio element's side of it
    state_isPlaying,
    audio_paused,       \* audioElement.paused (TRUE while there is no element)
    playPromises,       \* play() promises not yet settled: element, caller, outcome
    playOnClick,        \* elements whose playOnClick listener waits on document
    lastControl         \* history: the latest playback operation

mainVars == <<sess, live, isAnimating, energyData, zoneData, scene, isIntroAnimationActive>>
loadVars == <<initPc, audioLoad, dataLoad, fetchFailed>>
callbackVars == <<timers, intro, animPending>>
windowVars == <<window_energyData, window_zoneData>>
domVars == <<backButtonShown, keyDownRegistered, toggleViewClicks, zoneChangeListeners, camKeyListeners>>
audioVars == <<audioElement, audio_currentTime>>
cameraVars == <<fpEnabled, orbitEnabled>>
stateVars == <<state_currentIndex, state_currentZone, state_firstPersonMode>>
zoneHist == <<sessEvents, fromDefault, tuWrote, lastCand, candChanges, lastRun>>
lifeHist == <<lastInput, staleRan, introRuns, introEnded, lastFault>>
probeVars == <<call, ret>>
playVars == <<state_isPlaying, audio_paused, playPromises, playOnClick, lastControl>>
vars == <<mainVars, loadVars, callbackVars, windowVars, domVars, audioVars,
          rollercoasterPath, cameraVars, stateVars, zoneHist, lifeHist, probeVars,
          playVars>>

Sessions == 1..(IF MaxRides > MaxSessions THEN MaxRides ELSE MaxSessions)

\* ------------------------------------------------------------------ helpers
Min(a, b) == IF a < b THEN a ELSE b
Max(a, b) == IF a > b THEN a ELSE b
Abs(a) == IF a < 0 THEN -a ELSE a
At(s, i) == s[i + 1]
Has(s, i) == i >= 0 /\ i < Len(s)

\* A loaded series: the session whose load produced the array, and the array.
\* id = -1 is JavaScript's undefined (window.energyData before any load),
\* id = 0 the literal [] of the module initialisers and of cleanupResources.
Undefined == [id |-> -1, samples |-> <<>>]
EmptyArray == [id |-> 0, samples |-> <<>>]

\* config.js zonePalettes[i].name
zonePalettes == <<"low", "medium", "high", "ethereal", "cosmic">>
PaletteNames == {zonePalettes[i] : i \in 1..zoneCount}

\* config.js getZoneNameFromValue, for an integer zone value
getZoneNameFromValue(zoneValue) ==
    IF zoneValue < 0 THEN At(zonePalettes, 0)
    ELSE IF Has(zonePalettes, zoneValue) THEN At(zonePalettes, zoneValue)
    ELSE At(zonePalettes, zoneValue % zoneCount)

\* JavaScript values that are no finite number, as integers below every time
\* and index of the model: NaN; undefined, the time of a sample that has no
\* numeric time field (it becomes NaN in arithmetic and comparisons); and the
\* time written for an array entry that is itself missing (undefined).
NaN == 0 - 1000
NoTime == 0 - 1001
Hole == 0 - 1002
\* The marker of a call that threw instead of returning.
Thrown == 0 - 2

IsNaN(x) == x <= NaN
LtN(a, b) == ~IsNaN(a) /\ ~IsNaN(b) /\ a < b
GtN(a, b) == ~IsNaN(a) /\ ~IsNaN(b) /\ a > b
LeN(a, b) == ~IsNaN(a) /\ ~IsNaN(b) /\ a <= b
SubN(a, b) == IF IsNaN(a) \/ IsNaN(b) THEN NaN ELSE a - b
AbsN(a) == IF IsNaN(a) THEN NaN ELSE Abs(a)
\* Math.abs(a - b) < 0.001, over times that are whole seconds
NearN(a, b) == ~IsNaN(a) /\ ~IsNaN(b) /\ a = b

\* energyData[i] is undefined: reading its .time throws a TypeError
Missing(samples, i) == ~Has(samples, i) \/ At(samples, i).time = Hole
\* energyData[i] && typeof energyData[i].time === 'number' (NaN is a number)
TypeofNumber(samples, i) == ~Missing(samples, i) /\ At(samples, i).time # NoTime
\* a sample with a finite time
ValidSample(samples, i) == TypeofNumber(samples, i) /\ ~IsNaN(At(samples, i).time)

\* Fractions <<numerator, denominator>> with a positive denominator, for the
\* fractional indices and positions; RNaN is NaN.
R(i) == <<i, 1>>
RNaN == <<0, 0>>
RIsNaN(a) == a[2] = 0
RLe(a, b) == ~RIsNaN(a) /\ ~RIsNaN(b) /\ a[1] * b[2] <= b[1] * a[2]
REq(a, b) == ~RIsNaN(a) /\ ~RIsNaN(b) /\ a[1] * b[2] = b[1] * a[2]
RMul(a, b) == IF RIsNaN(a) \/ RIsNaN(b) THEN RNaN ELSE <<a[1] * b[1], a[2] * b[2]>>
\* Math.min: NaN if either argument is NaN
RMin(a, b) == IF RIsNaN(a) \/ RIsNaN(b) THEN RNaN ELSE IF RLe(a, b) THEN a ELSE b

\* utils.js findClosestTimeIndex: the binary search loop; <<"hit", mid>> on a
\* time neither below nor above the sample's, <<"throw">> on a missing entry,
\* else <<"miss", left, right>> as the loop leaves them.
RECURSIVE ClosestSearch(_, _, _, _)
ClosestSearch(time, samples, left, right) ==
    IF left > right THEN <<"miss", left, right>>
    ELSE LET mid == (left + right) \div 2 IN
         IF Missing(samples, mid) THEN <<"throw">>
         ELSE IF LtN(At(samples, mid).time, time) THEN ClosestSearch(time, samples, mid + 1, right)
         ELSE IF GtN(At(samples, mid).time, time) THEN ClosestSearch(time, samples, left, mid - 1)
         ELSE <<"hit", mid>>

\* utils.js line 106: the nearer of the two bracketing samples
CloserAlwaysRight(leftDiff, rightDiff, right, left) == right
Closer(leftDiff, rightDiff, right, left) ==
    IF LtN(leftDiff, rightDiff) THEN right ELSE left

findClosestTimeIndex(time, samples) ==
    LET r == ClosestSearch(time, samples, 0, Len(samples) - 1) IN
    IF r[1] = "throw" THEN Thrown
    ELSE IF r[1] = "hit" THEN r[2]
    ELSE LET left == r[2]
             right == r[3] IN
         IF right < 0 THEN 0
         ELSE IF left >= Len(samples) THEN Len(samples) - 1
         ELSE IF Missing(samples, right) \/ Missing(samples, left) THEN Thrown
         ELSE LET leftDiff == AbsN(SubN(At(samples, right).time, time))
                  rightDiff == AbsN(SubN(At(samples, left).time, time)) IN
              Closer(leftDiff, rightDiff, right, left)

\* utils.js findExactIndexFromTime lines 131-174: the search for the two
\* surrounding indices, stepping over samples without a numeric time;
\* <<"range", left, right>>, or <<"none">> where line 157 returns 0.
RECURSIVE ExactSearch(_, _, _, _)
ExactSearch(time, samples, left, right) ==
    IF right - left <= 1 THEN <<"range", left, right>>
    ELSE LET mid == (left + right) \div 2 IN
         IF ~TypeofNumber(samples, mid)
         THEN LET fwd == {i \in mid..right : TypeofNumber(samples, i)}
                  bwd == {i \in left..(mid - 1) : TypeofNumber(samples, i)}
                  validIndex == IF fwd # {} THEN CHOOSE i \in fwd : \A j \in fwd : i <= j
                                ELSE IF bwd # {} THEN CHOOSE i \in bwd : \A j \in bwd : i >= j
                                ELSE 0 - 1
              IN IF validIndex = 0 - 1 THEN <<"none">>
                 ELSE IF validIndex >= mid THEN ExactSearch(time, samples, validIndex, right)
                 ELSE ExactSearch(time, samples, left, validIndex)
         ELSE IF LtN(At(samples, mid).time, time) THEN ExactSearch(time, samples, mid, right)
         ELSE ExactSearch(time, samples, left, mid)

\* utils.js lines 188-189: left + (time - leftTime) / timeDiff
InterpolateToLeft(left, leftTime, time, timeDiff) == R(left)
Interpolate(left, leftTime, time, timeDiff) ==
    <<left * timeDiff + (time - leftTime), timeDiff>>

\* utils.js findExactIndexFromTime lines 110-194; time is a number or NaN
findExactIndexFromTime(time, samples) ==
    IF Len(samples) = 0 THEN R(0)
    ELSE IF IsNaN(time) THEN R(0)
    ELSE IF ~TypeofNumber(samples, 0) \/ ~TypeofNumber(samples, Len(samples) - 1) THEN R(0)
    ELSE LET r == ExactSearch(time, samples, 0, Len(samples) - 1) IN
         IF r[1] = "none" THEN R(0)
         ELSE LET left == r[2]
                  right == r[3]
                  leftTime == At(samples, left).time
                  rightTime == At(samples, right).time
                  timeDiff == SubN(rightTime, leftTime)
              IN IF NearN(leftTime, time) THEN R(left)
                 ELSE IF NearN(rightTime, time) THEN R(right)
                 ELSE IF LeN(timeDiff, 0) THEN R(left)
                 ELSE IF IsNaN(timeDiff) \/ IsNaN(leftTime) THEN RNaN
                 ELSE Interpolate(left, leftTime, time, timeDiff)

\* utils.js lines 212 and 234: the position never reaches 1
PositionCapOne == <<100, 100>>
PositionCap == <<99, 100>>

\* utils.js findNormalizedPositionFromTime lines 197-239; energies are in
\* hundredths
findNormalizedPositionFromTime(time, samples) ==
    IF Len(samples) = 0 THEN R(0)
    ELSE IF IsNaN(time) THEN R(0)
    ELSE LET exactIndex == findExactIndexFromTime(time, samples) IN
         IF RLe(exactIndex, R(0)) THEN R(0)
         ELSE IF RLe(R(Len(samples) - 1), exactIndex) THEN PositionCap
         ELSE IF RIsNaN(exactIndex) THEN RNaN
         ELSE LET idx == exactIndex[1] \div exactIndex[2]
                  nextIdx == Min(idx + 1, Len(samples) - 1)
                  energyChangeRate ==
                      IF ~Missing(samples, nextIdx) /\ ~Missing(samples, idx)
                      THEN Abs(At(samples, nextIdx).energy - At(samples, idx).energy)
                      ELSE 0
                  speedMultiplier == <<150 + energyChangeRate * 5, 100>>
                  basePosition == <<exactIndex[1], exactIndex[2] * (Len(samples) - 1)>>
              IN RMin(PositionCap, RMul(basePosition, speedMultiplier))

\* -------------------------------------------------------------- song data
\* Sample i of every series is at SkipSeconds * i seconds; the audio runs
\* half a sample past the last one.
EnergyLevels == {10, 50, 90}
ZoneIds == 0..(zoneCount - 1)
HalfGap == SkipSeconds \div 2
EnergySeries(e) == [i \in 1..Len(e) |-> [time |-> SkipSeconds * (i - 1), energy |-> e[i]]]
ZoneSeries(z) == [i \in 1..Len(z) |-> [time |-> SkipSeconds * (i - 1), zone |-> z[i]]]
Flat(n, v) == [i \in 1..n |-> v]
\* A song with a zone file (flat energy), or without one (energy varies).
ZonedSongs == {[energy |-> EnergySeries(Flat(DataLen, 50)), zones |-> ZoneSeries(z)] :
                  z \in [1..DataLen -> ZoneIds]}
UnzonedSongs == {[energy |-> EnergySeries(e), zones |-> <<>>] :
                  e \in [1..DataLen -> EnergyLevels]}
Songs == ZonedSongs \cup UnzonedSongs
Duration == SkipSeconds * (DataLen - 1) + HalfGap

\* ------------------------------------------------------- series on their own
\* The series and times the functions of utils.js are called with on their
\* own: up to SeriesLen samples at whole seconds, in time order, any of them
\* possibly without a finite time or missing; flat or alternating energy.
SampleTimes == (0..SeriesLen) \cup {NaN, NoTime, Hole}
QueryTimes == ((0 - 1)..(SeriesLen + 1)) \cup {NaN}
InTimeOrder(ts) ==
    \A i, j \in DOMAIN ts :
        (i < j /\ ~IsNaN(ts[i]) /\ ~IsNaN(ts[j])) => ts[i] <= ts[j]
EnergyShapes(n) == {Flat(n, 50), [i \in 1..n |-> IF i % 2 = 1 THEN 10 ELSE 90]}
SeriesOfLen(n) ==
    {[i \in 1..n |-> [time |-> ts[i], energy |-> es[i]]] :
        ts \in {t \in [1..n -> SampleTimes] : InTimeOrder(t)}, es \in EnergyShapes(n)}
IndexSeries == UNION {SeriesOfLen(n) : n \in 0..SeriesLen}
\* Five samples two seconds apart with a time midway between the third and
\* the fourth: samples at 0,1,2,3,4 s queried at 2.5 s, on a clock of half
\* seconds (the functions divide time differences only by time differences).
FiveSamples ==
    <<[time |-> 0, energy |-> 10], [time |-> 2, energy |-> 20], [time |-> 4, energy |-> 90],
      [time |-> 6, energy |-> 95], [time |-> 8, energy |-> 20]>>
MidwayCall == [fn |-> "index", time |-> 5, samples |-> FiveSamples]
IndexCalls == {[fn |-> "index", time |-> t, samples |-> e] :
                  t \in QueryTimes, e \in IndexSeries} \cup {MidwayCall}

\* camera.js line 124: Math.max(0, Math.min(0.99, normalizedPosition)), the
\* path parameter of the first-person camera
safePathPosition(normalizedPosition) ==
    IF RLe(normalizedPosition, R(0)) THEN R(0)
    ELSE RMin(PositionCap, normalizedPosition)
\* main.js animateIntro lines 651-652 and updateTransition lines 940-943:
\* Math.min(findClosestTimeIndex(time, energyData) / energyData.length, 0.99),
\* the path parameter of the intro's first-person target
introPathPosition(closest, length) == RMin(<<closest, length>>, PositionCap)

\* --------------------------------------------------------- path on its own
\* The energy of a sample that has no numeric energy field.
NoEnergy == 0 - 1003
\* The energy series createRollercoaster is called with on its own: up to
\* PathLen samples one second apart, whose energies are numbers up to some
\* sample and not from it on, or the other way round; or no array at all.
PathSeries ==
    {[i \in 1..n |-> [time |-> i - 1,
                      energy |-> IF (i <= k) = head THEN 50 ELSE NoEnergy]] :
        n \in 0..PathLen, k \in 0..PathLen, head \in BOOLEAN}
\* rollercoaster.js line 6: the module's rollercoasterPath before the call, by
\* the number of its control points; 0 is undefined, as in the first session.
PathsBefore == {0, MinCurvePoints, FallbackPoints}
PathCalls == {[fn |-> "path", given |-> g, samples |-> e, before |-> b] :
                 g \in BOOLEAN, e \in PathSeries, b \in PathsBefore}

\* rollercoaster.js createRollercoaster lines 56-61: the indices that give a
\* control point
ControlPoints(samples) ==
    {i \in 0..(Len(samples) - 1) :
        i % SampleStride = 0 /\ At(samples, i).energy # NoEnergy}

\* rollercoaster.js createRollercoaster lines 11-130: what it returns and the
\* control points of the module's rollercoasterPath after it. given is false
\* for an energyData that is undefined or null.
createRollercoasterPath(given, samples, before) ==
    IF ~given \/ Len(samples) = 0
    THEN [returned |-> "null", points |-> before]
    ELSE LET derived == Cardinality(ControlPoints(samples)) IN
         [returned |-> "object",
          points |-> IF derived < MinCurvePoints THEN derived + FallbackPoints
                     ELSE derived]

\* ------------------------------------------------------- light orbs
\* Path parameters of the orbs are counted in units of 1 / PathUnit, which
\* makes the initial positions i / count (line 433), the speeds, 0.01 and
\* 0.99 whole numbers.
PathUnit == 2000 * OrbCount
\* rollercoaster.js line 438: 0.0002 + Math.random() * 0.0004, at its two
\* ends and midway
OrbSpeeds == {(PathUnit \div 5000) * k : k \in 1..3}
OrbCalls == {[fn |-> "orb", position |-> (PathUnit \div OrbCount) * i, speed |-> v] :
                i \in 0..(OrbCount - 1), v \in OrbSpeeds}

\* rollercoaster.js updateLightOrbs lines 459-462: the orb moves on and
\* starts over once past the end
OrbAdvance(position, speed) ==
    IF position + speed > PathUnit THEN 0 ELSE position + speed
\* rollercoaster.js updateLightOrbs lines 465-471: the parameters given to
\* getPointAt in one frame, the orb's position and the look-ahead
OrbQueries(position) ==
    {position, Min(position + PathUnit \div 100, (PathUnit \div 100) * 99)}

\* ------------------------------------------------------- camera on its own
\* A camera pose: where on the track the position was taken (the fraction
\* given to getPointAt, with twice the energy change rate that set the
\* height above the track, and the random shake added), what the last
\* camera.lookAt looked toward, and how many tilt-and-roll increments the
\* rotation has received since. OffTrack is a place that is no track point.
OffTrack == RNaN
\* camera.js lines 160-162: Math.max(2, base - energyChangeRate * 3), in
\* two-hundredths, from twice the energy change rate in hundredths
HeightAboveTrack(rate) ==
    Max(MinHeightAboveTrack * 200, defaultHeightAboveTrack * 200 - rate * 3)
Pose(at, rate, shake, towardAt, towardRate, tilts) ==
    [position |-> [at |-> at, rate |-> rate, height |-> HeightAboveTrack(rate),
                   shake |-> shake],
     toward |-> [at |-> towardAt, rate |-> towardRate],
     tilts |-> tilts]
\* main.js startIntroAnimation lines 555-556: far above the scene, looking at
\* its origin; and a pose of an earlier frame on the track.
PriorPoses == {Pose(OffTrack, 0, 0, OffTrack, 0, 0), Pose(R(0), 0, 0, R(0), 0, 1)}

\* The path queries of updateCameraPosition in their order, and the ways one
\* of them can fail: getPointAt / getTangentAt throws, or returns a value
\* that is no point.
QuerySteps == {"position", "tangent", "lookAt", "tilt"}
PathFaults == {[step |-> "none", throws |-> FALSE]} \cup
              {[step |-> q, throws |-> t] : q \in QuerySteps, t \in BOOLEAN}
\* Math.random() - 0.5, by sign
Shakes == {0 - 1, 0, 1}

\* The calls of updateCameraPosition on its own: an energy series of
\* CameraLen samples, an audio time up to half a sample past the last one, the pose before, state.firstPersonMode, the audio element
\* present or not, firstPersonControls.mouseDrag, a path that fails at one
\* query or at none and that runs level or straight up at the position.
CameraInputs ==
    {[fn |-> "camera", samples |-> EnergySeries(e), time |-> HalfGap * k, pose |-> ps,
      firstPerson |-> fp, hasPath |-> TRUE, hasAudio |-> au, currentIndex |-> 0,
      mouseDrag |-> md, fault |-> f, steep |-> st] :
        e \in [1..CameraLen -> EnergyLevels], k \in 0..(2 * CameraLen - 1),
        ps \in PriorPoses, fp \in BOOLEAN, au \in BOOLEAN, md \in BOOLEAN,
        f \in PathFaults, st \in BOOLEAN}

\* camera.js updateCameraPosition lines 111-242: the pose it leaves from the
\* pose it finds, for the call c, the normalized position line 108 computed
\* and the random draw shake. The position is written at line 164; lookAt
\* (line 178) sets the orientation anew unless the look-at point is invalid
\* or the mouse drags; the tilt and roll (lines 214, 223) are added to the
\* rotation; the shake (lines 231-236) is added to the position.
cameraUpdate(pose, c, shake, normalizedPosition) ==
    LET currentEnergyIndex == normalizedPosition[1] \div normalizedPosition[2]
        prevEnergyIndex == Max(0, currentEnergyIndex - 1)
        nextEnergyIndex == Min(Len(c.samples) - 1, currentEnergyIndex + 1)
        \* twice energyChangeRate, in hundredths
        rate == At(c.samples, nextEnergyIndex).energy
                   - At(c.samples, prevEnergyIndex).energy
        safePosition == safePathPosition(normalizedPosition)
        failed(q) == c.fault.step = q
        lookSkipped == failed("lookAt") \/ c.mouseDrag
        tiltSkipped == failed("tilt") \/ c.steep
    IN IF failed("position") \/ failed("tangent") THEN pose
       ELSE IF failed("lookAt") /\ c.fault.throws
       THEN [pose EXCEPT !.position = [at |-> safePosition, rate |-> rate,
                                       height |-> HeightAboveTrack(rate), shake |-> 0]]
       ELSE [position |-> [at |-> safePosition, rate |-> rate,
                           height |-> HeightAboveTrack(rate),
                           shake |-> IF Abs(rate) > 10 THEN shake ELSE 0],
             toward |-> IF lookSkipped THEN pose.toward
                        ELSE [at |-> safePosition, rate |-> Abs(rate)],
             tilts |-> (IF lookSkipped THEN pose.tilts ELSE 0)
                          + (IF tiltSkipped THEN 0 ELSE 1)]

\* ------------------------------------------------------ zone state machine
\* main.js updateUIIndicators line 1147 / audio.js line 198: the debounce test
ZoneChangedAlways(newZone, currentZone) == TRUE
ZoneChanged(newZone, currentZone) == newZone # currentZone

\* main.js updateUIIndicators lines 1132-1135: energy bands
EnergyBandZone(currentEnergy) ==
    getZoneNameFromValue(Min((currentEnergy * zoneCount) \div 100, zoneCount - 1))

\* What the zone computations read at an index: the zone value, or the energy
\* (offset by 1000) when the zone series has no sample there.
NoKey == 0 - 1
DataKey(samples, wz, idx) ==
    IF Has(wz.samples, idx) THEN At(wz.samples, idx).zone
    ELSE 1000 + At(samples, idx).energy

\* main.js updateUIIndicators lines 1100-1158, the zone part
updateUIIndicators(samples, wz, currentIndex, currentZone) ==
    IF ~Has(samples, currentIndex)
    THEN [computed |-> FALSE, cand |-> currentZone, key |-> NoKey,
          dispatched |-> FALSE, zone |-> currentZone]
    ELSE LET currentEnergy == At(samples, currentIndex).energy
             newZone == IF wz.id >= 0 /\ Has(wz.samples, currentIndex)
                        THEN getZoneNameFromValue(At(wz.samples, currentIndex).zone)
                        ELSE EnergyBandZone(currentEnergy)
             changed == ZoneChanged(newZone, currentZone)
         IN [computed |-> TRUE, cand |-> newZone,
             key |-> DataKey(samples, wz, currentIndex),
             dispatched |-> changed,
             zone |-> IF changed THEN newZone ELSE currentZone]

\* audio.js updatePositionFromTime lines 185 and 188-194
ThreeZoneNames == <<"low", "medium", "high">>
TimeUpdateZone(we, wz, idx) ==
    IF wz.id >= 0 /\ Has(wz.samples, idx)
    THEN LET zoneValue == At(wz.samples, idx).zone IN
         IF Has(ThreeZoneNames, zoneValue) THEN At(ThreeZoneNames, zoneValue)
         ELSE "undefined"
    ELSE LET currentEnergy == At(we.samples, idx).energy IN
         IF currentEnergy < 33 THEN "low"
         ELSE IF currentEnergy <= 66 THEN "medium"
         ELSE "high"

\* audio.js updatePositionFromTime, with an audio element present
updatePositionFromTime(we, wz, time, currentIndex, currentZone) ==
    LET newIndex == findClosestTimeIndex(time, we.samples)
        same == [idx |-> currentIndex, computed |-> FALSE, cand |-> currentZone,
                 key |-> NoKey, dispatched |-> FALSE, zone |-> currentZone]
    IN IF we.id < 0 THEN same
       ELSE IF newIndex = currentIndex THEN same
       ELSE IF ~Has(we.samples, newIndex) THEN [same EXCEPT !.idx = newIndex]
       ELSE LET newZone == TimeUpdateZone(we, wz, newIndex)
                changed == ZoneChanged(newZone, currentZone)
            IN [idx |-> newIndex, computed |-> TRUE, cand |-> newZone,
                key |-> DataKey(we.samples, wz, newIndex),
                dispatched |-> changed,
                zone |-> IF changed THEN newZone ELSE currentZone]

Events(r) == IF r.dispatched THEN sessEvents + 1 ELSE sessEvents

\* ----------------------------------------------------------------- history
NoRun == [by |-> "none", time |-> 0, key |-> NoKey, prevKey |-> NoKey,
          cand |-> "low", before |-> "low", after |-> "low", dispatched |-> FALSE]

\* The record of one zone computation r made by handler `by` at audio time t,
\* with state.currentZone = zone0 on entry, after the computation recorded in run0.
RunRecord(by, r, t, zone0, run0) ==
    IF r.computed
    THEN [by |-> by, time |-> t, key |-> r.key, prevKey |-> run0.key,
          cand |-> r.cand, before |-> zone0, after |-> r.zone,
          dispatched |-> r.dispatched]
    ELSE run0


NoInput == [kind |-> "none", flipped |-> FALSE]

\* ----------------------------------------------------------------- start state
\* The page after DOMContentLoaded: module initialisers of main.js, audio.js,
\* rollercoaster.js and camera.js, and config.js state.
NoCall == [fn |-> "none"]
NoRet == [fn |-> "none"]

InitPage ==
    /\ sess = 0
    /\ live = 0
    /\ isAnimating = FALSE
    /\ energyData = EmptyArray
    /\ zoneData = EmptyArray
    /\ scene = 0
    /\ isIntroAnimationActive = FALSE
    /\ initPc = [s \in Sessions |-> "none"]
    /\ audioLoad = [s \in Sessions |-> "none"]
    /\ dataLoad = [s \in Sessions |-> 0]
    /\ fetchFailed = {}
    /\ timers = [s \in Sessions |-> "none"]
    /\ intro = [s \in Sessions |-> "none"]
    /\ animPending = {}
    /\ window_energyData = Undefined
    /\ window_zoneData = Undefined
    /\ backButtonShown = FALSE
    /\ keyDownRegistered = FALSE
    /\ toggleViewClicks = 0
    /\ zoneChangeListeners = 0
    /\ camKeyListeners = 0
    /\ audioElement = 0
    /\ audio_currentTime = 0
    /\ rollercoasterPath = 0
    /\ fpEnabled = FALSE
    /\ orbitEnabled = FALSE
    /\ state_currentIndex = 0
    /\ state_currentZone = "low"
    /\ state_firstPersonMode = TRUE
    /\ sessEvents = 0
    /\ fromDefault = TRUE
    /\ tuWrote = FALSE
    /\ lastCand = "low"
    /\ candChanges = 0
    /\ lastRun = NoRun
    /\ lastInput = NoInput
    /\ staleRan = FALSE
    /\ introRuns = 0
    /\ introEnded = FALSE
    /\ lastFault = "none"
    /\ state_isPlaying = FALSE
    /\ audio_paused = TRUE
    /\ playPromises = {}
    /\ playOnClick = {}
    /\ lastControl = "none"

Init ==
    /\ InitPage
    /\ call = NoCall
    /\ ret = NoRet

\* ------------------------------------------------------------ session start
\* main.js animate lines 1175-1181 (the zone part of one frame body)
FrameResult(samples, wz, time, zone0) ==
    LET idx == findClosestTimeIndex(time, samples) IN
    [idx |-> idx, r |-> updateUIIndicators(samples, wz, idx, zone0)]

\* What a frame body reads: program variables and the zone history.
Now ==
    [scene |-> scene, e |-> energyData, wz |-> window_zoneData,
     audio |-> audioElement, time |-> audio_currentTime, zone |-> state_currentZone,
     live |-> live, events |-> sessEvents, cand |-> lastCand,
     changes |-> candChanges, run |-> lastRun, tw |-> tuWrote]

\* The zone part of a frame body run in context c, and its history.
FrameFx(c) ==
    LET f == FrameResult(c.e.samples, c.wz, c.time, c.zone) IN
    /\ state_currentIndex' = f.idx
    /\ state_currentZone' = f.r.zone
    /\ sessEvents' = IF f.r.dispatched THEN c.events + 1 ELSE c.events
    /\ lastRun' = RunRecord("frame", f.r, c.time, c.zone, c.run)
    /\ lastCand' = IF f.r.computed /\ ~c.tw THEN f.r.cand ELSE c.cand
    /\ candChanges' = IF f.r.computed /\ ~c.tw /\ f.r.cand # c.cand
                      THEN c.changes + 1 ELSE c.changes

\* main.js init lines 214-225, up to the await: setupScene (camera.js
\* setupCamera included) and the synchronous part of audio.js setupAudio.
initSetup(s) ==
    /\ sess' = s
    /\ live' = s
    /\ scene' = s
    /\ fpEnabled' = state_firstPersonMode
    /\ UNCHANGED <<probeVars, playVars>>
    /\ orbitEnabled' = ~state_firstPersonMode
    /\ camKeyListeners' = camKeyListeners + 1
    /\ audioElement' = s
    /\ audio_currentTime' = 0
    /\ lastInput' = NoInput
    /\ introRuns' = 0
    /\ introEnded' = FALSE
    /\ lastFault' = "none"
    /\ fromDefault' = (state_currentZone = "low")
    /\ tuWrote' = FALSE

\* The variables init writes after its await.
continueVars == <<initPc, rollercoasterPath, timers, toggleViewClicks, zoneChangeListeners, keyDownRegistered,
                  isAnimating, animPending, state_currentIndex, state_currentZone,
                  sessEvents, lastRun, lastCand, candChanges>>

\* main.js init lines 231-244, after the await, in context c:
\* createEnvironmentElements (throws on a null scene), finishLoading,
\* isAnimating = true, and the first call of animate().
initContinue(s, c) ==
    IF c.scene = 0
    THEN /\ initPc' = [initPc EXCEPT ![s] = "crashed"]
         /\ UNCHANGED <<rollercoasterPath, timers, toggleViewClicks, zoneChangeListeners, keyDownRegistered,
                        isAnimating, animPending, state_currentIndex, state_currentZone,
                        sessEvents, lastRun, lastCand, candChanges>>
    ELSE /\ initPc' = [initPc EXCEPT ![s] = "running"]
         /\ rollercoasterPath' = IF c.e.samples = <<>> THEN rollercoasterPath ELSE c.e.id
         /\ timers' = [timers EXCEPT ![s] = "t1"]
         /\ toggleViewClicks' = toggleViewClicks + 1
         /\ zoneChangeListeners' = zoneChangeListeners + 1
         /\ keyDownRegistered' = TRUE
         /\ isAnimating' = TRUE
         /\ animPending' = animPending \cup {c.live}
         /\ IF c.audio # 0
            THEN FrameFx(c)
            ELSE /\ state_currentIndex' = state_currentIndex
                 /\ state_currentZone' = c.zone
                 /\ sessEvents' = c.events
                 /\ lastRun' = c.run
                 /\ lastCand' = c.cand
                 /\ candChanges' = c.changes

\* The song of the life-cycle specification: flat energy, zone 0 throughout.
TheSong == [energy |-> EnergySeries(Flat(DataLen, 50)), zones |-> ZoneSeries(Flat(DataLen, 0))]

\* main.js init with every load resolved (setupAudio, loadDataWithProgress),
\* up to and including its first call of animate().
StartRide(song) ==
    /\ live = 0
    /\ sess < MaxRides
    /\ LET s == sess + 1
           e == [id |-> s, samples |-> song.energy]
           z == [id |-> s, samples |-> song.zones]
       IN /\ initSetup(s)
          /\ energyData' = e
          /\ zoneData' = z
          /\ window_energyData' = e
          /\ window_zoneData' = z
          /\ audioLoad' = [audioLoad EXCEPT ![s] = "settled"]
          /\ dataLoad' = [dataLoad EXCEPT ![s] = DataFiles]
          /\ initContinue(s, [scene |-> s, e |-> e, wz |-> z, audio |-> s, time |-> 0,
                              zone |-> state_currentZone, live |-> s, events |-> 0,
                              cand |-> state_currentZone, changes |-> 0,
                              run |-> NoRun, tw |-> FALSE])
    /\ UNCHANGED <<isIntroAnimationActive, fetchFailed, intro, backButtonShown,
                   state_firstPersonMode, staleRan>>

\* The start button: main.js init up to its await on Promise.all.
StartButton ==
    /\ live = 0
    /\ sess < MaxSessions
    /\ initSetup(sess + 1)
    /\ initPc' = [initPc EXCEPT ![sess + 1] = "loading"]
    /\ audioLoad' = [audioLoad EXCEPT ![sess + 1] = "pending"]
    /\ sessEvents' = 0
    /\ lastCand' = state_currentZone
    /\ candChanges' = 0
    /\ lastRun' = NoRun
    /\ UNCHANGED <<isAnimating, energyData, zoneData, isIntroAnimationActive, dataLoad,
                   fetchFailed, callbackVars, windowVars, backButtonShown,
                   keyDownRegistered, toggleViewClicks, zoneChangeListeners, rollercoasterPath, stateVars,
                   staleRan>>

\* audio.js setupAudio settles ('canplaythrough' resolves it, 'error' rejects
\* it); main.js setupAudioWithProgress catches the rejection, so init goes on
\* alike. The last load to settle resumes init.
AudioSettled(s) ==
    /\ initPc[s] = "loading"
    /\ audioLoad[s] = "pending"
    /\ audioLoad' = [audioLoad EXCEPT ![s] = "settled"]
    /\ IF dataLoad[s] = DataFiles
       THEN initContinue(s, Now)
       ELSE UNCHANGED continueVars
    /\ UNCHANGED <<sess, live, energyData, zoneData, scene, isIntroAnimationActive,
                   dataLoad, fetchFailed, intro, windowVars, backButtonShown,
                   camKeyListeners, audioVars, cameraVars, probeVars, playVars, state_firstPersonMode,
                   fromDefault, tuWrote, lifeHist>>

\* main.js loadDataWithProgress: the next file of session s arrives
\* (utils.js loadData calls its callback); after the last one the series
\* are published on window.
DataLoaded(s) ==
    /\ initPc[s] = "loading"
    /\ dataLoad[s] < DataFiles
    /\ s \notin fetchFailed
    /\ dataLoad' = [dataLoad EXCEPT ![s] = dataLoad[s] + 1]
    /\ LET n == dataLoad[s] + 1
           e1 == IF n = 1 THEN [id |-> s, samples |-> TheSong.energy] ELSE energyData
           z1 == IF n = DataFiles THEN [id |-> s, samples |-> TheSong.zones] ELSE zoneData
       IN /\ energyData' = e1
          /\ zoneData' = z1
          /\ window_energyData' = IF n = DataFiles THEN e1 ELSE window_energyData
          /\ window_zoneData' = IF n = DataFiles THEN z1 ELSE window_zoneData
          /\ IF n = DataFiles /\ audioLoad[s] # "pending"
             THEN initContinue(s, [Now EXCEPT !.e = e1, !.wz = z1])
             ELSE UNCHANGED continueVars
    /\ UNCHANGED <<sess, live, scene, isIntroAnimationActive, audioLoad, fetchFailed,
                   intro, backButtonShown, camKeyListeners, audioVars, cameraVars, probeVars, playVars,
                   state_firstPersonMode, fromDefault, tuWrote, lifeHist>>

\* utils.js loadData lines 14-19: the fetch fails or the response is not ok;
\* the promise rejects and the callback of loadDataWithProgress is never called.
DataFetchFailed(s) ==
    /\ initPc[s] = "loading"
    /\ dataLoad[s] < DataFiles
    /\ s \notin fetchFailed
    /\ fetchFailed' = fetchFailed \cup {s}
    /\ UNCHANGED <<mainVars, initPc, audioLoad, dataLoad, callbackVars, windowVars,
                   domVars, audioVars, rollercoasterPath, cameraVars, probeVars, playVars, stateVars,
                   zoneHist, lifeHist>>

\* ------------------------------------------------- timers and the intro
\* A callback scheduled by session s runs while s is no longer on screen.
Stale(s) == s # live

\* main.js finishLoading lines 406-407: the outer timeout fires
Timer1(s) ==
    /\ timers[s] = "t1"
    /\ timers' = [timers EXCEPT ![s] = "t2"]
    /\ staleRan' = (staleRan \/ Stale(s))
    /\ UNCHANGED <<mainVars, loadVars, intro, animPending, windowVars, domVars,
                   audioVars, rollercoasterPath, cameraVars, probeVars, playVars, stateVars, zoneHist,
                   lastInput, introRuns, introEnded, lastFault>>

\* main.js startIntroAnimation lines 519-1041, with the first call of
\* animateIntro; scene.fog (line 574) throws on a null scene.
startIntroAnimation(s) ==
    /\ isIntroAnimationActive' = TRUE
    /\ state_firstPersonMode' = FALSE
    /\ introRuns' = IF live # 0 THEN introRuns + 1 ELSE introRuns
    /\ IF scene = 0
       THEN /\ intro' = [intro EXCEPT ![s] = "dead"]
            /\ UNCHANGED audio_currentTime
       ELSE /\ intro' = [intro EXCEPT ![s] = "intro"]
            /\ audio_currentTime' = IF audioElement # 0 THEN 0 ELSE audio_currentTime

\* main.js finishLoading lines 408-427: the inner timeout fires
Timer2(s) ==
    /\ timers[s] = "t2"
    /\ timers' = [timers EXCEPT ![s] = "none"]
    /\ backButtonShown' = TRUE
    /\ startIntroAnimation(s)
    /\ staleRan' = (staleRan \/ Stale(s))
    /\ UNCHANGED <<sess, live, isAnimating, energyData, zoneData, scene, loadVars,
                   animPending, windowVars, keyDownRegistered, toggleViewClicks, zoneChangeListeners,
                   camKeyListeners, audioElement, rollercoasterPath, cameraVars, probeVars, playVars,
                   state_currentIndex, state_currentZone, zoneHist, lastInput,
                   introEnded, lastFault>>

\* The end of the transition without the mode write of lines 998 and 1010.
endTransitionKeepsMode(s) ==
    /\ UNCHANGED state_firstPersonMode
    /\ isIntroAnimationActive' = FALSE
    /\ intro' = [intro EXCEPT ![s] = "done"]
    /\ introEnded' = (introEnded \/ s = live)

\* main.js updateTransition lines 996-1018: the transition ends, by its
\* catch block or by its duration.
endTransition(s) ==
    /\ state_firstPersonMode' = TRUE
    /\ isIntroAnimationActive' = FALSE
    /\ intro' = [intro EXCEPT ![s] = "done"]
    /\ introEnded' = (introEnded \/ s = live)

\* main.js updateTransition lines 922-930: the try block throws when the
\* path or the audio element is missing.
TransitionThrows == rollercoasterPath = 0 \/ audioElement = 0

\* The exception an intro frame of session s caught, as the history keeps it.
IntroFault(s, left) ==
    IF s # live THEN lastFault ELSE IF left THEN "introLeft" ELSE "introStayed"

\* main.js animateIntro lines 626-1036, one frame of the closure of session
\* s; finished: the intro duration has passed on the clock; throws: a path
\* or audio query of the frame throws. The primary phase (progress < 1)
\* catches at lines 820-823 and requests the next frame; past it the frame
\* makes the first call of updateTransition. The clock read of line 629 is
\* outside every try and throws on a null clock.
animateIntro(s, finished, throws) ==
    /\ intro[s] = "intro"
    /\ staleRan' = (staleRan \/ Stale(s))
    /\ IF scene = 0
       THEN /\ intro' = [intro EXCEPT ![s] = "dead"]
            /\ UNCHANGED <<state_firstPersonMode, isIntroAnimationActive, introEnded,
                           lastFault>>
       ELSE IF ~finished
       THEN /\ lastFault' = IF throws THEN IntroFault(s, FALSE) ELSE lastFault
            /\ UNCHANGED <<intro, state_firstPersonMode, isIntroAnimationActive,
                           introEnded>>
       ELSE IF throws \/ TransitionThrows
       THEN /\ endTransition(s)
            /\ lastFault' = IntroFault(s, TRUE)
       ELSE /\ intro' = [intro EXCEPT ![s] = "settle"]
            /\ UNCHANGED <<state_firstPersonMode, isIntroAnimationActive, introEnded,
                           lastFault>>
    /\ UNCHANGED <<sess, live, isAnimating, energyData, zoneData, scene, loadVars,
                   timers, animPending, windowVars, domVars, audioVars,
                   rollercoasterPath, cameraVars, probeVars, playVars, state_currentIndex,
                   state_currentZone, zoneHist, lastInput, introRuns>>

\* main.js updateTransition lines 867-1019, one later frame of the closure of
\* session s; finished: the transition duration has passed; throws: a path
\* or audio query of the frame throws (caught at lines 996-1006).
updateTransition(s, finished, throws) ==
    /\ intro[s] = "settle"
    /\ staleRan' = (staleRan \/ Stale(s))
    /\ IF finished
       THEN endTransition(s) /\ UNCHANGED lastFault
       ELSE IF throws \/ TransitionThrows
       THEN endTransition(s) /\ lastFault' = IntroFault(s, TRUE)
       ELSE UNCHANGED <<intro, state_firstPersonMode, isIntroAnimationActive,
                        introEnded, lastFault>>
    /\ UNCHANGED <<sess, live, isAnimating, energyData, zoneData, scene, loadVars,
                   timers, animPending, windowVars, domVars, audioVars,
                   rollercoasterPath, cameraVars, probeVars, playVars, state_currentIndex,
                   state_currentZone, zoneHist, lastInput, introRuns>>

\* ---------------------------------------------------------- the frame loop
\* main.js animate lines 1164-1166: the callback requested during session o
\* requests the next frame before the frame body runs, so the request stands
\* whether or not the body throws.
FrameRequestAfterBody(o, threw) ==
    IF threw THEN animPending \ {o} ELSE (animPending \ {o}) \cup {live}
FrameRequest(o, threw) == (animPending \ {o}) \cup {live}

\* main.js animate: a waiting frame callback, requested during session o,
\* runs; threw: the body throws after its zone update (line 1181), in the
\* background, light, object, control or render calls that follow.
animate(threw) ==
    \E o \in animPending :
        IF ~isAnimating
        THEN /\ animPending' = animPending \ {o}
             /\ UNCHANGED <<mainVars, loadVars, timers, intro, windowVars, domVars,
                            audioVars, rollercoasterPath, cameraVars, probeVars, playVars, stateVars,
                            zoneHist, lifeHist>>
        ELSE /\ animPending' = FrameRequest(o, threw)
             /\ staleRan' = (staleRan \/ Stale(o))
             /\ lastFault' = IF threw THEN "frame" ELSE lastFault
             /\ IF audioElement # 0
                THEN /\ Events(FrameResult(energyData.samples, window_zoneData,
                                           audio_currentTime, state_currentZone).r) <= MaxEvents
                     /\ FrameFx(Now)
                ELSE UNCHANGED <<state_currentIndex, state_currentZone, sessEvents,
                                 lastRun, lastCand, candChanges>>
             /\ UNCHANGED <<mainVars, loadVars, timers, intro, windowVars, domVars,
                            audioVars, rollercoasterPath, cameraVars, probeVars, playVars,
                            state_firstPersonMode, fromDefault, tuWrote, lastInput,
                            introRuns, introEnded>>

\* ------------------------------------------------------ audio and playback
\* What the playback handlers leave alone.
playbackFrame == UNCHANGED <<mainVars, loadVars, callbackVars, windowVars, domVars,
                             audioElement, rollercoasterPath, cameraVars, probeVars, playVars,
                             state_firstPersonMode, lifeHist>>

\* One run of audio.js updatePositionFromTime with the audio at time t.
RunTimeUpdate(t) ==
    LET r == updatePositionFromTime(window_energyData, window_zoneData, t,
                                    state_currentIndex, state_currentZone)
    IN /\ Events(r) <= MaxEvents
       /\ state_currentIndex' = r.idx
       /\ state_currentZone' = r.zone
       /\ sessEvents' = Events(r)
       /\ tuWrote' = (tuWrote \/ r.dispatched)
       /\ lastRun' = RunRecord("timeupdate", r, t, state_currentZone, lastRun)
       /\ UNCHANGED <<lastCand, candChanges, fromDefault>>

NoZoneRun == UNCHANGED <<state_currentIndex, state_currentZone, zoneHist>>

\* audio.js line 30: the element's 'timeupdate' event
timeupdate ==
    /\ audioElement # 0
    /\ RunTimeUpdate(audio_currentTime)
    /\ UNCHANGED audio_currentTime
    /\ playbackFrame

\* The audio element plays on by half a sample.
Playback ==
    /\ audioElement # 0
    /\ audio_currentTime < Duration
    /\ audio_currentTime' = audio_currentTime + HalfGap
    /\ NoZoneRun
    /\ playbackFrame

\* audio.js skipForward; isPlaying is state.isPlaying, which the playback
\* controls own: both values are followed.
skipForward(isPlaying) ==
    /\ audioElement # 0
    /\ audio_currentTime' = Min(audio_currentTime + SkipSeconds, Duration)
    /\ IF ~isPlaying THEN RunTimeUpdate(audio_currentTime') ELSE NoZoneRun
    /\ playbackFrame

\* audio.js skipBackward
skipBackward(isPlaying) ==
    /\ audioElement # 0
    /\ audio_currentTime' = Max(audio_currentTime - SkipSeconds, 0)
    /\ IF ~isPlaying THEN RunTimeUpdate(audio_currentTime') ELSE NoZoneRun
    /\ playbackFrame

\* audio.js restartRide
restartRide(isPlaying) ==
    /\ audioElement # 0
    /\ audio_currentTime' = 0
    /\ IF isPlaying THEN RunTimeUpdate(0) ELSE NoZoneRun
    /\ playbackFrame

\* ------------------------------------------------------------- view toggle
\* camera.js toggleViewMode line 62, called n times in a row
RECURSIVE ToggledMode(_, _)
ToggledMode(mode, n) == IF n = 0 THEN mode ELSE ToggledMode(~mode, n - 1)

\* The listeners a keydown event reaches: main.js handleKeyDown is one
\* function, registered at most once whatever finishLoading repeats (line
\* 439); the anonymous listener of camera.js setupCamera (lines 49-53) is a
\* new function each session.
KeyDownToggles == camKeyListeners + (IF keyDownRegistered THEN 1 ELSE 0)

\* camera.js toggleViewMode lines 61-94, run by each of n listeners of one
\* input of the given kind.
toggleViewMode(kind, n) ==
    LET mode == ToggledMode(state_firstPersonMode, n) IN
    /\ state_firstPersonMode' = mode
    /\ fpEnabled' = mode
    /\ orbitEnabled' = ~mode
    /\ lastInput' = IF live = 0 THEN NoInput
                    ELSE [kind |-> kind, flipped |-> mode # state_firstPersonMode]
    /\ UNCHANGED <<probeVars, playVars>>
    /\ UNCHANGED <<mainVars, loadVars, callbackVars, windowVars, domVars, audioVars,
                   rollercoasterPath, state_currentIndex, state_currentZone,
                   zoneHist, staleRan, introRuns, introEnded, lastFault>>

\* The user presses 'v'.
PressV ==
    /\ KeyDownToggles > 0
    /\ toggleViewMode("v", KeyDownToggles)

\* The user clicks #toggle-view: main.js finishLoading line 435 adds one
\* anonymous click listener per session.
ClickToggleView ==
    /\ live # 0
    /\ toggleViewClicks > 0
    /\ toggleViewMode("click", toggleViewClicks)

\* ------------------------------------------------------------ back to menu
\* main.js cleanupResources lines 1307-1369, with audio.js cleanupAudio
cleanupResources ==
    /\ isAnimating' = FALSE
    /\ audioElement' = 0
    /\ energyData' = EmptyArray
    /\ zoneData' = EmptyArray
    /\ scene' = 0

\* main.js setupBackToMenuButton lines 1247-1302: the click handler of
\* #back-to-menu, reached by a click on the shown button or by Escape
\* (handleKeyDown).
backToMenu ==
    /\ backButtonShown \/ keyDownRegistered
    /\ backButtonShown' = FALSE
    /\ live' = 0
    /\ cleanupResources
    /\ lastInput' = NoInput
    /\ introRuns' = 0
    /\ introEnded' = FALSE
    /\ lastFault' = "none"
    /\ UNCHANGED <<sess, isIntroAnimationActive, loadVars, callbackVars, windowVars,
                   keyDownRegistered, toggleViewClicks, zoneChangeListeners, camKeyListeners,
                   audio_currentTime, rollercoasterPath, cameraVars, probeVars, playVars, stateVars,
                   zoneHist, staleRan>>

\* ---------------------------------------------------------- specifications
\* The zone state machine over whole rides: every song of Songs, playback,
\* seeking, and the return to the menu. The finishLoading timers and the
\* intro write neither the zone nor the index; Spec follows them.
NextZone ==
    \/ \E song \in Songs : StartRide(song)
    \/ \E threw \in BOOLEAN : animate(threw)
    \/ timeupdate
    \/ Playback
    \/ \E p \in BOOLEAN : skipForward(p)
    \/ \E p \in BOOLEAN : skipBackward(p)
    \/ \E p \in BOOLEAN : restartRide(p)
    \/ backToMenu

SpecZone == Init /\ [][NextZone]_vars

\* The session life cycle: init step by step, its timers and frames, the
\* view toggle and the return to the menu. Its frames are the ones that throw
\* nothing; SpecZone and SpecIntro follow the throwing ones.
Next ==
    \/ StartButton
    \/ \E s \in Sessions : AudioSettled(s)
    \/ \E s \in Sessions : DataLoaded(s)
    \/ \E s \in Sessions : DataFetchFailed(s)
    \/ \E s \in Sessions : Timer1(s)
    \/ \E s \in Sessions : Timer2(s)
    \/ \E s \in Sessions, finished \in BOOLEAN : animateIntro(s, finished, FALSE)
    \/ \E s \in Sessions, finished \in BOOLEAN : updateTransition(s, finished, FALSE)
    \/ animate(FALSE)
    \/ PressV
    \/ ClickToggleView
    \/ backToMenu

Spec == Init /\ [][Next]_vars

\* One ride from the start button through its intro, under every input the
\* controls offer but the return to the menu: frames that may throw,
\* playback, skips, restart and view toggles.
NextIntro ==
    \/ StartButton
    \/ \E s \in Sessions : AudioSettled(s)
    \/ \E s \in Sessions : DataLoaded(s)
    \/ \E s \in Sessions : Timer1(s)
    \/ \E s \in Sessions : Timer2(s)
    \/ \E s \in Sessions, finished, throws \in BOOLEAN : animateIntro(s, finished, throws)
    \/ \E s \in Sessions, finished, throws \in BOOLEAN : updateTransition(s, finished, throws)
    \/ \E threw \in BOOLEAN : animate(threw)
    \/ timeupdate
    \/ Playback
    \/ \E p \in BOOLEAN : skipForward(p)
    \/ \E p \in BOOLEAN : skipBackward(p)
    \/ \E p \in BOOLEAN : restartRide(p)
    \/ PressV
    \/ ClickToggleView

\* Frames keep firing and the clocks advance: main.js animateIntro measures
\* clock.getElapsedTime() against its 8 s (lines 629-631) and updateTransition
\* Date.now() against its 2 s (lines 868-869, 925), and each requests its next
\* frame, so a frame past the duration comes while the phase lasts.
FairIntro ==
    \A s \in Sessions :
        /\ WF_vars(\E throws \in BOOLEAN : animateIntro(s, TRUE, throws))
        /\ WF_vars(\E throws \in BOOLEAN : updateTransition(s, TRUE, throws))

SpecIntro == Init /\ [][NextIntro]_vars /\ FairIntro

\* utils.js on its own: one time resolved against one series by
\* findClosestTimeIndex, findExactIndexFromTime and
\* findNormalizedPositionFromTime.
resolveIndex ==
    /\ call.fn = "index"
    /\ ret = NoRet
    /\ ret' = [fn |-> "index",
               closest |-> findClosestTimeIndex(call.time, call.samples),
               exact |-> findExactIndexFromTime(call.time, call.samples),
               norm |-> findNormalizedPositionFromTime(call.time, call.samples)]
    /\ UNCHANGED <<mainVars, loadVars, callbackVars, windowVars, domVars, audioVars,
                   rollercoasterPath, cameraVars, stateVars, zoneHist, lifeHist, call,
                   playVars>>

\* camera.js updateCameraPosition lines 97-242, called once more with the
\* arguments on record; shake is what Math.random() draws in this call.
updateCameraPosition(shake) ==
    /\ call.fn = "camera"
    /\ IF ret = NoRet THEN TRUE ELSE ret.calls < CameraCalls
    /\ \E before \in {IF ret = NoRet THEN call.pose ELSE ret.pose} :
       \E after \in
          {IF \/ ~call.firstPerson \/ ~call.hasPath
              \/ ~Has(call.samples, call.currentIndex)
              \/ ~call.hasAudio
           THEN before
           ELSE cameraUpdate(before, call, shake, np) :
              np \in {findNormalizedPositionFromTime(call.time, call.samples)}} :
          ret' = [fn |-> "camera",
                  calls |-> IF ret = NoRet THEN 1 ELSE ret.calls + 1,
                  before |-> before, pose |-> after,
                  first |-> IF ret = NoRet THEN after ELSE ret.first]
    /\ UNCHANGED <<mainVars, loadVars, callbackVars, windowVars, domVars, audioVars,
                   rollercoasterPath, cameraVars, stateVars, zoneHist, lifeHist, call,
                   playVars>>

InitCamera ==
    /\ InitPage
    /\ call \in CameraInputs
    /\ ret = NoRet

NextCamera == \E shake \in Shakes : updateCameraPosition(shake)

SpecCamera == InitCamera /\ [][NextCamera]_vars

\* rollercoaster.js createRollercoaster, called with the arguments on record
createRollercoaster ==
    /\ call.fn = "path"
    /\ ret = NoRet
    /\ \E r \in {createRollercoasterPath(call.given, call.samples, call.before)} :
          ret' = [fn |-> "path", returned |-> r.returned, points |-> r.points]
    /\ UNCHANGED <<mainVars, loadVars, callbackVars, windowVars, domVars, audioVars,
                   rollercoasterPath, cameraVars, stateVars, zoneHist, lifeHist, call,
                   playVars>>

InitPath ==
    /\ InitPage
    /\ call \in PathCalls
    /\ ret = NoRet

NextPath == createRollercoaster

SpecPath == InitPath /\ [][NextPath]_vars

\* rollercoaster.js updateLightOrbs lines 454-475, one frame of one orb on a
\* path that is there
updateLightOrbs ==
    /\ call.fn = "orb"
    /\ \E position \in {OrbAdvance(IF ret = NoRet THEN call.position ELSE ret.position,
                                    call.speed)} :
          ret' = [fn |-> "orb", position |-> position, queried |-> OrbQueries(position)]
    /\ UNCHANGED <<mainVars, loadVars, callbackVars, windowVars, domVars, audioVars,
                   rollercoasterPath, cameraVars, stateVars, zoneHist, lifeHist, call,
                   playVars>>

InitOrbs ==
    /\ InitPage
    /\ call \in OrbCalls
    /\ ret = NoRet

NextOrbs == updateLightOrbs

SpecOrbs == InitOrbs /\ [][NextOrbs]_vars

InitIndex ==
    /\ InitPage
    /\ call \in IndexCalls
    /\ ret = NoRet

NextIndex == resolveIndex

SpecIndex == InitIndex /\ [][NextIndex]_vars

\* ------------------------------------------------------ claims, zone machine
\* C1: a frame dispatches a zoneChange event exactly when its candidate zone
\* differs from state.currentZone on entry, and leaves state.currentZone at the
\* candidate; so from the default zone 'low', while only frames have written the
\* zone, the events of the session number the changes of the candidate.
C1_FrameEventIffCandidateDiffers ==
    /\ lastRun.by = "frame" =>
          /\ lastRun.dispatched <=> (lastRun.cand # lastRun.before)
          /\ state_currentZone = lastRun.cand
    /\ (fromDefault /\ ~tuWrote) => sessEvents = candChanges

\* C1 witness: from 'low', frames over zone values 1 then 2 gave two events.
C1_TwoChangesTwoEvents ==
    /\ fromDefault /\ ~tuWrote
    /\ lastRun.by = "frame" /\ lastRun.dispatched
    /\ lastRun.before = "medium" /\ state_currentZone = "high"
    /\ sessEvents = 2 /\ candChanges = 2

\* C2: while the data read stays the same (same zone value, or same energy when
\* there is no zone sample), a zone computation dispatches no event and does
\* not rewrite state.currentZone, whichever handler runs it.
C2_NoEventInsideARun ==
    (lastRun.by # "none" /\ lastRun.prevKey # NoKey /\ lastRun.key = lastRun.prevKey)
        => (~lastRun.dispatched /\ lastRun.after = lastRun.before)

\* The zone series of the running session is constant z.
ConstantZone(z) ==
    /\ Len(window_zoneData.samples) > 0
    /\ window_zoneData.id = sess
    /\ \A i \in 1..Len(window_zoneData.samples) : window_zoneData.samples[i].zone = z

\* A frame has run with the audio at its end.
FullPlayback ==
    /\ isAnimating
    /\ audio_currentTime = Duration
    /\ lastRun.by = "frame" /\ lastRun.time = Duration

\* C3: in every session with a constant zone series z, after full playback
\* state.currentZone names zone z and the session dispatched one event if z is
\* not the default zone 0, none if it is.
C3_ConstantSeriesOneEvent ==
    \A z \in ZoneIds :
        (ConstantZone(z) /\ FullPlayback) =>
            /\ state_currentZone = getZoneNameFromValue(z)
            /\ sessEvents = (IF z = 0 THEN 0 ELSE 1)

\* C4: state.currentZone is always the name of a zone of the palette.
C4_ZoneInPalette == state_currentZone \in PaletteNames


\* ---------------------------------------------------------- claims, life cycle
\* C5: in every session one press of 'v', or one click of #toggle-view, flips
\* state.firstPersonMode exactly once: the mode after the input is the
\* opposite of the mode before it.
C5_OneInputOneFlip == lastInput.kind # "none" => lastInput.flipped

\* C6: no callback scheduled by a session (animate frame, animateIntro frame,
\* updateTransition frame, finishLoading timer) runs its body once that
\* session has been cleaned up.
C6_NoStaleCallbackRuns == ~staleRan

\* C7: in the menu after cleanupResources nothing refers to the series or the
\* path of a session: the module arrays are empty, window.energyData and
\* window.zoneData hold no loaded series, rollercoasterPath is unset.
C7_CleanupDropsSessionData ==
    (live = 0 /\ sess > 0) =>
        /\ energyData.id <= 0
        /\ zoneData.id <= 0
        /\ window_energyData.id <= 0
        /\ window_zoneData.id <= 0
        /\ rollercoasterPath = 0

\* C8: isAnimating is true (so a frame body can run) only when the audio load
\* of the session on screen has settled and its three series are loaded.
C8_NoAnimationBeforeLoads ==
    isAnimating => /\ live # 0
                   /\ audioLoad[live] = "settled"
                   /\ dataLoad[live] = DataFiles

\* C9: an init whose fetch of a series failed can still go on to completion:
\* while it is at its await, one of its loads can still settle.
C9_FailedFetchStillCompletes ==
    \A s \in Sessions :
        (initPc[s] = "loading" /\ s \in fetchFailed) =>
            ENABLED (AudioSettled(s) \/ DataLoaded(s))

\* C10: within the session on screen startIntroAnimation runs at most once,
\* and once the session's transition has ended isIntroAnimationActive stays
\* false.
C10_IntroOncePerSession ==
    live # 0 => /\ introRuns <= 1
                /\ introEnded => ~isIntroAnimationActive

\* ------------------------------------------------------ claims, intro
\* C11: with frames firing and time advancing, every started intro transition
\* ends, and ends with isIntroAnimationActive false and state.firstPersonMode
\* true, whatever play, skip, restart and view-toggle inputs come meanwhile.
C11_IntroTerminates ==
    \A s \in Sessions :
        (intro[s] \in {"intro", "settle"})
            ~> (intro[s] = "done" /\ ~isIntroAnimationActive /\ state_firstPersonMode)

\* C11 witness: the intro of the ride on screen has ended in first-person
\* mode after a view toggle and with the audio moved off its start.
C11_EndedAfterInputs ==
    /\ live # 0
    /\ intro[live] = "done"
    /\ introEnded
    /\ ~isIntroAnimationActive
    /\ state_firstPersonMode
    /\ lastInput.kind # "none"
    /\ audio_currentTime > 0

\* C12: when a path or audio query throws during a frame of the intro, primary
\* phase or settle phase, the exception is caught and the intro is left in that
\* same frame: after it isIntroAnimationActive is false and
\* state.firstPersonMode is true.
C12_IntroFaultLeavesIntro ==
    [][(lastFault' # lastFault /\ lastFault' \in {"introStayed", "introLeft"})
          => (~isIntroAnimationActive' /\ state_firstPersonMode')]_vars

\* ------------------------------------------------------ claims, frame loop
\* C13: while isAnimating, an exception in the processing of a frame does not
\* stop the loop: once a frame has thrown, the next frame is still requested.
C13_LoopSurvivesThrow ==
    (isAnimating /\ lastFault = "frame") => animPending # {}

\* C13 witness: a frame of the ride on screen threw and the next frame of
\* that ride is waiting.
C13_ThrownFrameRescheduled ==
    /\ isAnimating
    /\ lastFault = "frame"
    /\ live # 0
    /\ live \in animPending

\* ------------------------------------------------ claims, rollercoaster.js
\* C22: for an energy series from which fewer than 4 control points can be
\* derived, an empty or missing series and a series without valid energies
\* included, createRollercoaster returns without throwing and leaves a path
\* of at least 36 control points for getRollercoasterPath.
C22_FallbackPathAlways ==
    (/\ call.fn = "path" /\ ret.fn = "path"
     /\ \/ ~call.given
        \/ Cardinality(ControlPoints(call.samples)) < 4) =>
        ret.points >= 36

\* C23: in every frame every parameter passed to a path query lies in
\* [0, 0.99]; stated here for the light orbs riding the curve
\* (updateLightOrbs), after any number of frames.
C23_PathQueriesInRange ==
    (call.fn = "orb" /\ ret.fn = "orb") =>
        \A q \in ret.queried : 0 <= q /\ q * 100 <= PathUnit * 99

\* ------------------------------------------------------ claims, camera.js
\* The call on record passed the guards of lines 98 and 104, so that its path
\* queries were made.
QueriesMade ==
    /\ call.fn = "camera" /\ ret.fn = "camera"
    /\ call.firstPerson /\ call.hasPath /\ call.hasAudio
    /\ Has(call.samples, call.currentIndex)

\* C14: when a path query of updateCameraPosition throws or returns an
\* invalid value, at whichever query, the camera's position and orientation
\* after the call are exactly those before it.
C14_FaultKeepsPose ==
    (QueriesMade /\ call.fault.step # "none") => ret.pose = ret.before

\* C25: the energy derivative updateCameraPosition uses for the pose at time t
\* is the central difference (energy[i+1] - energy[i-1]) / 2 at the sample
\* index i resolved for t, neighbours clamped to the series; read off the
\* height of the position the call wrote (twice the derivative, in
\* hundredths).
C25_DerivativeIsLocal ==
    (/\ QueriesMade
     /\ call.fault.step \notin {"position", "tangent"}) =>
        \A i \in {findClosestTimeIndex(call.time, call.samples)} :
            ret.pose.position.rate =
                At(call.samples, Min(i + 1, Len(call.samples) - 1)).energy
                    - At(call.samples, Max(i - 1, 0)).energy

\* C26: the camera's height above the track is lower during a drop than
\* during a climb: for a negative energy derivative it is at most the
\* configured default (4), for a positive one at least the default.
C26_LowerInDrops ==
    (/\ QueriesMade
     /\ call.fault.step \notin {"position", "tangent"}) =>
        /\ ret.pose.position.rate < 0 => ret.pose.position.height <= 4 * 200
        /\ ret.pose.position.rate > 0 => ret.pose.position.height >= 4 * 200

\* C15: two successive calls of updateCameraPosition with the same time,
\* series and path leave the same position and orientation, whatever the
\* pose before the first call; stated here for a path none of whose queries
\* fails and with the mouse not dragging.
C15_SecondCallSamePose ==
    (/\ QueriesMade
     /\ call.fault.step = "none"
     /\ ~call.mouseDrag
     /\ ret.calls = CameraCalls) => ret.pose = ret.first

\* ------------------------------------------------------ claims, utils.js
\* The call on record has returned.
Resolved == call.fn = "index" /\ ret.fn = "index"
TimeAt(i) == At(call.samples, i).time
LastIndex == Len(call.samples) - 1
Indices == 0..LastIndex
\* The series of the call is non-empty and every sample has a finite time
\* (the series are in time order by construction).
ValidSeries ==
    /\ Len(call.samples) > 0
    /\ \A i \in Indices : ValidSample(call.samples, i)

\* The times of the series strictly increase.
StrictlyAscending == \A i \in Indices : i < LastIndex => TimeAt(i) < TimeAt(i + 1)

\* C16: on a non-empty ascending series with valid times, a time before the
\* first sample gives index 0 and normalized position 0, and a time after
\* the last sample gives the last index and a normalized position at most
\* 0.99, never 1.
C16_EndsResolveToEnds ==
    (Resolved /\ ValidSeries /\ ~IsNaN(call.time)) =>
        /\ call.time < TimeAt(0) =>
              (ret.closest = 0 /\ REq(ret.norm, R(0)))
        /\ call.time > TimeAt(LastIndex) =>
              /\ ret.closest = LastIndex
              /\ RLe(ret.norm, <<99, 100>>)
              /\ ~REq(ret.norm, R(1))

\* C16 witness: a time past the last of several samples, resolved to the last
\* index and to position 0.99.
C16_PastTheEnd ==
    /\ Resolved /\ ValidSeries /\ ~IsNaN(call.time)
    /\ Len(call.samples) >= 2
    /\ TimeAt(0) < TimeAt(LastIndex)
    /\ call.time > TimeAt(LastIndex)
    /\ ret.closest = LastIndex
    /\ REq(ret.norm, <<99, 100>>)

\* C17: on a non-empty ascending series with valid times, for every numeric
\* time, findExactIndexFromTime returns a fractional index within
\* [0, length-1]: exactly 0 before the first sample and exactly length-1 after
\* the last.
C17_ExactIndexClamped ==
    (Resolved /\ ValidSeries /\ StrictlyAscending /\ ~IsNaN(call.time)) =>
        /\ RLe(R(0), ret.exact)
        /\ RLe(ret.exact, R(LastIndex))
        /\ call.time < TimeAt(0) => REq(ret.exact, R(0))
        /\ call.time > TimeAt(LastIndex) => REq(ret.exact, R(LastIndex))

\* C18: on a series with some invalid samples and at least one valid one,
\* findClosestTimeIndex returns, without throwing, an index whose sample is
\* valid.
C18_ClosestSkipsInvalid ==
    (/\ Resolved /\ ~IsNaN(call.time)
     /\ \E i \in Indices : ValidSample(call.samples, i)
     /\ \E i \in Indices : ~ValidSample(call.samples, i)) =>
        /\ ret.closest # Thrown
        /\ ValidSample(call.samples, ret.closest)

\* C19: with a NaN time on any series, or with an empty series for any time,
\* each of the three functions returns 0 and does not throw; stated here for
\* the series whose samples are all valid, and the empty one.
C19_DegenerateInputsGiveZero ==
    (/\ Resolved
     /\ \/ IsNaN(call.time) /\ ValidSeries
        \/ Len(call.samples) = 0) =>
        /\ ret.closest = 0
        /\ ret.exact = R(0)
        /\ ret.norm = R(0)

\* C20: on a non-empty series with valid non-decreasing times, for every
\* numeric time, findClosestTimeIndex returns an index whose sample time is
\* nearest to the time among all samples; when some sample has exactly the
\* time, so has the returned one.
C20_ClosestIsNearest ==
    (Resolved /\ ValidSeries /\ ~IsNaN(call.time)) =>
        /\ ret.closest \in Indices
        /\ \A j \in Indices :
              Abs(TimeAt(ret.closest) - call.time) <= Abs(TimeAt(j) - call.time)
        /\ (\E j \in Indices : TimeAt(j) = call.time) => TimeAt(ret.closest) = call.time

\* C20 witness: a time strictly between two samples and nearer the earlier
\* one, resolved to the earlier one.
C20_NearerOfTwo ==
    /\ Resolved /\ ValidSeries /\ ~IsNaN(call.time)
    /\ ret.closest \in Indices
    /\ ret.closest < LastIndex
    /\ TimeAt(ret.closest) < call.time
    /\ call.time - TimeAt(ret.closest) < TimeAt(ret.closest + 1) - call.time

\* C21: on an all-valid strictly ascending series, for a time strictly between
\* the samples L and L+1, findExactIndexFromTime returns
\* L + (t - time[L]) / (time[L+1] - time[L]) and findClosestTimeIndex returns L
\* or L+1; five samples at 0,1,2,3,4 queried at 2.5 give 2.5 and 2 or 3.
C21_InterpolatesBetweenSamples ==
    (Resolved /\ ValidSeries /\ StrictlyAscending /\ ~IsNaN(call.time)) =>
        /\ \A L \in Indices :
              (L < LastIndex /\ TimeAt(L) < call.time /\ call.time < TimeAt(L + 1)) =>
                 /\ REq(ret.exact, <<L * (TimeAt(L + 1) - TimeAt(L)) + (call.time - TimeAt(L)),
                                     TimeAt(L + 1) - TimeAt(L)>>)
                 /\ ret.closest \in {L, L + 1}
        /\ call = MidwayCall => (REq(ret.exact, <<5, 2>>) /\ ret.closest \in {2, 3})

\* C21 witness: the five samples queried midway between the third and the
\* fourth resolved to 2.5.
C21_MidwayResolved ==
    /\ Resolved
    /\ call = MidwayCall
    /\ REq(ret.exact, <<5, 2>>)
    /\ ret.closest \in {2, 3}

\* The valid samples of the call, and the series with a gap: valid at both
\* ends, invalid somewhere between, the valid times strictly increasing.
ValidIndices == {i \in Indices : ValidSample(call.samples, i)}
GapSeries ==
    /\ Len(call.samples) >= 3
    /\ 0 \in ValidIndices
    /\ LastIndex \in ValidIndices
    /\ ValidIndices # Indices
    /\ \A i, j \in ValidIndices : i < j => TimeAt(i) < TimeAt(j)

\* C24: on a series valid at both ends with a gap of invalid samples between,
\* for every time within the data range findExactIndexFromTime returns a
\* fractional index between the index of the nearest valid sample at or
\* before the time and that of the nearest valid sample at or after it.
C24_GapKeepsBracket ==
    (/\ Resolved /\ GapSeries /\ ~IsNaN(call.time)
     /\ TimeAt(0) <= call.time /\ call.time <= TimeAt(LastIndex)) =>
        \A lo, hi \in ValidIndices :
            (/\ TimeAt(lo) <= call.time
             /\ \A i \in ValidIndices : TimeAt(i) <= call.time => i <= lo
             /\ TimeAt(hi) >= call.time
             /\ \A i \in ValidIndices : TimeAt(i) >= call.time => i >= hi) =>
                (RLe(R(lo), ret.exact) /\ RLe(ret.exact, R(hi)))

\* ------------------------------------------------------ claims, hand-over
\* C27: for every playback time and energy series the path parameter the
\* intro and its settle phase blend toward equals the one the first-person
\* camera (updateCameraPosition through findNormalizedPositionFromTime) uses
\* for the same time; stated here for the valid strictly ascending series.
C27_IntroTargetIsCameraPosition ==
    (Resolved /\ ValidSeries /\ StrictlyAscending /\ ~IsNaN(call.time)) =>
        REq(introPathPosition(ret.closest, Len(call.samples)),
            safePathPosition(ret.norm))

\* --------------------------------------------------- zone event delivery
\* The type createEnvironmentElements listens for and the type the zone
\* computations put on the CustomEvent they dispatch. addEventListener and
\* dispatchEvent compare types as case-sensitive strings.
zoneListenerType == "zonechange"
zoneEventType == "zoneChange"

\* dispatchEvent is synchronous: the number of times handleZoneChange runs
\* for one dispatched event is the number of listeners on document whose
\* type is the event's type.
dispatchEvent(type) ==
    IF type = zoneListenerType THEN zoneChangeListeners ELSE 0

\* C28: after each zone transition event dispatched by the zone state
\* machine, handleZoneChange has run exactly once for it.
C28_EventHandledOnce ==
    (lastRun.dispatched /\ zoneChangeListeners > 0) =>
        dispatchEvent(zoneEventType) = 1

\* ---------------------------------------------------------------- playback
\* audio.js playback on its own: the audio element of each session, its
\* play() promises and state.isPlaying, under the controls that start and stop
\* playback. The page specifications above leave playback aside.
playFrame == <<live, isAnimating, energyData, zoneData, scene, isIntroAnimationActive,
               loadVars, callbackVars, windowVars, domVars, audio_currentTime,
               rollercoasterPath, cameraVars, stateVars, zoneHist, lastInput, staleRan,
               introEnded, lastFault, probeVars>>

\* The play() promises there can be: the element played, the caller whose
\* callbacks wait on it, and whether the browser started playback.
Promises == [el : Sessions, by : {"toggle", "intro"}, ok : BOOLEAN]

\* HTMLMediaElement.play() on the session's element for caller `by`: the
\* browser starts playback (paused becomes false at once, the promise resolves
\* later) or refuses it (paused stays, the promise rejects later).
play(by, allowed) ==
    /\ audio_paused' = IF allowed THEN FALSE ELSE audio_paused
    /\ playPromises' = playPromises \cup {[el |-> audioElement, by |-> by, ok |-> allowed]}

\* HTMLMediaElement.pause() on element el: its pending play() promises reject.
pause(el) ==
    /\ audio_paused' = TRUE
    /\ playPromises' = {IF p.el = el THEN [p EXCEPT !.ok = FALSE] ELSE p : p \in playPromises}

\* audio.js togglePlayPause lines 58-86, past its guard
togglePlayPauseBody(allowed) ==
    IF state_isPlaying
    THEN /\ pause(audioElement)
         /\ state_isPlaying' = FALSE
    ELSE /\ play("toggle", allowed)
         /\ UNCHANGED state_isPlaying

\* audio.js setupAudio lines 10-34: a new element, paused, for a new session
setupAudio ==
    /\ audioElement = 0
    /\ sess < MaxSessions
    /\ sess' = sess + 1
    /\ audioElement' = sess + 1
    /\ audio_paused' = TRUE
    /\ introRuns' = 0
    /\ lastControl' = "setupAudio"
    /\ UNCHANGED <<state_isPlaying, playPromises, playOnClick, playFrame>>

\* main.js startIntroAnimation lines 594-618: the intro's auto-play
introAutoPlay(allowed) ==
    /\ audioElement # 0
    /\ introRuns = 0
    /\ introRuns' = 1
    /\ play("intro", allowed)
    /\ state_isPlaying' = TRUE
    /\ lastControl' = "intro"
    /\ UNCHANGED <<sess, audioElement, playOnClick, playFrame>>

togglePlayPause(allowed) ==
    /\ audioElement # 0
    /\ togglePlayPauseBody(allowed)
    /\ lastControl' = "toggle"
    /\ UNCHANGED <<sess, audioElement, introRuns, playOnClick, playFrame>>

\* audio.js restartRide lines 89-103, its playback side
restartRidePlayback(allowed) ==
    /\ audioElement # 0
    /\ IF ~state_isPlaying
       THEN togglePlayPauseBody(allowed)
       ELSE UNCHANGED <<state_isPlaying, audio_paused, playPromises>>
    /\ lastControl' = "restart"
    /\ UNCHANGED <<sess, audioElement, introRuns, playOnClick, playFrame>>

\* audio.js skipForward / skipBackward lines 106-137, their playback side:
\* neither starts nor stops playback
skipPlayback(direction) ==
    /\ audioElement # 0
    /\ lastControl' = direction
    /\ UNCHANGED <<sess, audioElement, introRuns, state_isPlaying, audio_paused,
                   playPromises, playOnClick, playFrame>>

\* The 'ended' listener of setupAudio lines 31-34: playback that had begun
\* reached the end of the song, which pauses the element.
ended ==
    /\ audioElement # 0
    /\ ~audio_paused
    /\ \A p \in playPromises : p.el # audioElement
    /\ audio_paused' = TRUE
    /\ state_isPlaying' = FALSE
    /\ lastControl' = "ended"
    /\ UNCHANGED <<sess, audioElement, introRuns, playPromises, playOnClick, playFrame>>

\* A play() promise settles and its callbacks run: togglePlayPause's then
\* (lines 75-78) or catch (79-81); startIntroAnimation's catch (lines 601-608),
\* which leaves a one-time click listener on document.
playSettled(p) ==
    /\ p \in playPromises
    /\ playPromises' = playPromises \ {p}
    /\ state_isPlaying' = IF p.ok /\ p.by = "toggle" THEN TRUE ELSE state_isPlaying
    /\ playOnClick' = IF ~p.ok /\ p.by = "intro" THEN playOnClick \cup {p.el}
                      ELSE playOnClick
    /\ lastControl' = IF p.ok THEN "resolved" ELSE "rejected"
    /\ UNCHANGED <<sess, audioElement, introRuns, audio_paused, playFrame>>

\* The playOnClick listener of element el runs on a click (lines 604-607)
\* and is removed; its play() has no callbacks.
playOnClickRuns(el, allowed) ==
    /\ el \in playOnClick
    /\ playOnClick' = playOnClick \ {el}
    /\ audio_paused' = IF el = audioElement /\ allowed THEN FALSE ELSE audio_paused
    /\ lastControl' = "click"
    /\ UNCHANGED <<sess, audioElement, introRuns, state_isPlaying, playPromises, playFrame>>

\* audio.js cleanupAudio lines 230-264
cleanupAudio ==
    /\ audioElement # 0
    /\ IF ~audio_paused
       THEN pause(audioElement)
       ELSE UNCHANGED <<audio_paused, playPromises>>
    /\ audioElement' = 0
    /\ lastControl' = "cleanup"
    /\ UNCHANGED <<sess, introRuns, state_isPlaying, playOnClick, playFrame>>

NextPlay ==
    \/ setupAudio
    \/ \E allowed \in BOOLEAN : introAutoPlay(allowed)
    \/ \E allowed \in BOOLEAN : togglePlayPause(allowed)
    \/ \E allowed \in BOOLEAN : restartRidePlayback(allowed)
    \/ \E direction \in {"forward", "backward"} : skipPlayback(direction)
    \/ ended
    \/ \E p \in Promises : playSettled(p)
    \/ \E el \in Sessions, allowed \in BOOLEAN : playOnClickRuns(el, allowed)
    \/ cleanupAudio

SpecPlay == Init /\ [][NextPlay]_vars

\* C29: once all pending play() promises have settled, state.isPlaying is true
\* exactly when the session's audio element is playing (not paused).
C29_PlayingIffNotPaused ==
    (audioElement # 0 /\ playPromises = {}) => (state_isPlaying <=> ~audio_paused)

\* ------------------------------------------------------ claims, controls
\* C30: in every state after the intro transition has ended, exactly one
\* control scheme is enabled and it matches the view mode:
\* firstPersonControls.enabled equals state.firstPersonMode and
\* orbitControls.enabled its negation, however often the view was toggled
\* while the intro was running.
C30_ControlsMatchViewMode ==
    (live # 0 /\ introEnded) =>
        /\ fpEnabled = state_firstPersonMode
        /\ orbitEnabled = ~state_firstPersonMode

====
